---------------------------- MODULE Spec2Model ----------------------------
(***************************************************************************)
(* A model of the context-graphs prototypes:                               *)
(*   decision_trace_extractor.py  DecisionPatternMatcher, TranscriptParser,*)
(*                                DecisionTraceExtractor                   *)
(*   projection_function.py       DecisionDatagraph, ProjectionFunction,   *)
(*                                build_datagraph_from_sessions            *)
(* Python str values are TLA+ strings, lists are sequences, dicts are      *)
(* functions whose DOMAIN is the set of keys present.  A DecisionTrace     *)
(* object is a record of its fields plus "id", its object identity.        *)
(***************************************************************************)
EXTENDS Integers, Sequences, FiniteSets, TLC

(***************************************************************************)
(* Bounds of the model.                                                    *)
(***************************************************************************)
MaxTraces == 3
MaxCapTraces == 11
MaxPieces == 3
MaxLines == 2

(***************************************************************************)
(* Program constants.                                                      *)
(***************************************************************************)
MIN_WORD_LEN == 4
DD_KEYWORD_CAP == 10
PF_KEYWORD_CAP == 15
PATTERN_PREFIX_LEN == 100
MIN_THINKING_LEN == 50
SUMMARY_MAX_LEN == 100
EXTRACT_MAX_LEN == 200
WINDOW_SECONDS == 60
MAX_PRECEDENTS == 10
MAX_PATTERNS == 5
MAX_WARNINGS == 3
MAX_SUGGESTED_TOOLS == 5
KEYWORD_TOP == 5
TOOL_TOP == 3
CO_TOOL_TOP == 3
PATTERN_SCAN == 5
RECOVERY_ACTION_LEN == 80
SUMMARY_SNIPPET_LEN == 60
RELEVANCE_DIV == 5

(***************************************************************************)
(* Python built-ins on str and list.                                       *)
(***************************************************************************)
Min(a, b) == IF a <= b THEN a ELSE b

Max(a, b) == IF a >= b THEN a ELSE b

\* s[i] for a 1-based index
CharAt(s, i) == SubSeq(s, i, i)

\* s[:n] for a str or a list
Take(s, n) == SubSeq(s, 1, Min(n, Len(s)))

\* s[i:] for a 1-based first index
From(s, i) == SubSeq(s, i, Len(s))

Range(seq) == {seq[i] : i \in 1..Len(seq)}

UpperChars == "ABCDEFGHIJKLMNOPQRSTUVWXYZ"

LowerChars == "abcdefghijklmnopqrstuvwxyz"

DigitChars == "0123456789"

UpperSet == {CharAt(UpperChars, i) : i \in 1..26}

LowerSet == {CharAt(LowerChars, i) : i \in 1..26}

DigitSet == {CharAt(DigitChars, i) : i \in 1..10}

\* [a-zA-Z]
AlphaSet == UpperSet \cup LowerSet

\* \w
WordCharSet == AlphaSet \cup DigitSet \cup {"_"}

\* \s, and the characters str.strip() removes
SpaceSet == {" ", "\t", "\n", "\r", "\f"}

LowerOf == [c \in UpperSet |->
              CharAt(LowerChars, CHOOSE i \in 1..26 : CharAt(UpperChars, i) = c)]

LowerChar(c) == IF c \in UpperSet THEN LowerOf[c] ELSE c

\* the least element of a non-empty set of integers
Least(S) == CHOOSE i \in S : \A j \in S : i <= j

\* the elements of a finite set of integers in increasing order
Ascending(S) ==
    [k \in 1..Cardinality(S) |-> CHOOSE i \in S : Cardinality({j \in S : j <= i}) = k]

\* the concatenation of f(c) over the characters c of s[i..j]
RECURSIVE MapChars(_, _, _, _)
MapChars(f(_), s, i, j) ==
    IF i > j THEN ""
    ELSE IF i = j THEN f(CharAt(s, i))
    ELSE MapChars(f, s, i, (i + j) \div 2) \o MapChars(f, s, (i + j) \div 2 + 1, j)

\* str.lower()
str_lower(s) == MapChars(LowerChar, s, 1, Len(s))

\* the positions i >= from with s[i:i+len(sub)] = sub
Occurrences(s, sub, from) ==
    {i \in from..(Len(s) - Len(sub) + 1) : SubSeq(s, i, i + Len(sub) - 1) = sub}

\* the least such position, 0 when there is none (str.find, 1-based)
FindFrom(s, sub, from) ==
    IF Occurrences(s, sub, from) = {} THEN 0 ELSE Least(Occurrences(s, sub, from))

\* sub in s
Contains(s, sub) == Occurrences(s, sub, 1) # {}

\* s.split('\n')
str_split_lines(s) ==
    LET breaks == Ascending(Occurrences(s, "\n", 1))
        n == Len(breaks)
    IN  [k \in 1..(n + 1) |->
            SubSeq(s, IF k = 1 THEN 1 ELSE breaks[k - 1] + 1,
                      IF k = n + 1 THEN Len(s) ELSE breaks[k] - 1)]

\* s.strip()
str_strip(s) ==
    LET kept == {i \in 1..Len(s) : CharAt(s, i) \notin SpaceSet}
    IN  IF kept = {} THEN ""
        ELSE SubSeq(s, Least(kept), CHOOSE i \in kept : \A j \in kept : j <= i)

\* s.replace(old, new) for a one-character old
str_replace(s, old, new) ==
    LET Sub(c) == IF c = old THEN new ELSE c
    IN  MapChars(Sub, s, 1, Len(s))

\* the end of the maximal run of letters that starts at i
AlphaRunEnd(s, i) ==
    Least({j \in i..Len(s) : j = Len(s) \/ CharAt(s, j + 1) \notin AlphaSet})

\* \b at the gap before position i (between s[i-1] and s[i])
WordBoundary(s, i) ==
    LET before == i > 1 /\ CharAt(s, i - 1) \in WordCharSet
        after == i <= Len(s) /\ CharAt(s, i) \in WordCharSet
    IN  before # after

\* re.findall(r'\b[a-zA-Z]{4,}\b', s): a match starts at a word boundary before a
\* letter, takes the whole run of letters (the quantifier is greedy; no shorter
\* run ends at a word boundary) and needs a word boundary after it
re_findall_words(s) ==
    LET starts == {i \in 1..Len(s) :
                     /\ CharAt(s, i) \in AlphaSet /\ WordBoundary(s, i)
                     /\ AlphaRunEnd(s, i) - i + 1 >= MIN_WORD_LEN
                     /\ WordBoundary(s, AlphaRunEnd(s, i) + 1)}
        ordered == Ascending(starts)
    IN  [k \in 1..Len(ordered) |-> SubSeq(s, ordered[k], AlphaRunEnd(s, ordered[k]))]

(***************************************************************************)
(* The regular expressions of DecisionPatternMatcher.PATTERNS.  A pattern  *)
(* is a sequence of elements: a literal, an alternation of literals        *)
(* "(a|b)", an optional literal "x?" or ".+" (one or more characters       *)
(* other than a newline).                                                  *)
(***************************************************************************)
Lit(s) == [k |-> "alt", alts |-> {s}]

Alt(ss) == [k |-> "alt", alts |-> ss]

Opt(s) == [k |-> "opt", alts |-> {s}]

AnyPlus == [k |-> "any", alts |-> {}]

\* the positions right after a match of one of alts that starts at a position of P
LitStep(alts, s, P) ==
    {p + Len(a) : <<p, a>> \in
        {pa \in P \X alts :
            /\ pa[1] + Len(pa[2]) - 1 <= Len(s)
            /\ SubSeq(s, pa[1], pa[1] + Len(pa[2]) - 1) = pa[2]}}

\* the positions right after a match of ".+" that starts at a position of P
AnyStep(s, P) ==
    {q \in 2..(Len(s) + 1) :
        \E p \in P : p < q /\ \A i \in p..(q - 1) : CharAt(s, i) # "\n"}

ReStep(e, s, P) ==
    IF e.k = "alt" THEN LitStep(e.alts, s, P)
    ELSE IF e.k = "opt" THEN P \cup LitStep(e.alts, s, P)
    ELSE AnyStep(s, P)

\* the positions where a match of pat[j..] can end when it starts in P
RECURSIVE ReEnds(_, _, _, _)
ReEnds(pat, j, s, P) ==
    IF j > Len(pat) \/ P = {} THEN P
    ELSE ReEnds(pat, j + 1, s, ReStep(pat[j], s, P))

\* re.search(pat, s) is not None
re_search(pat, s) == ReEnds(pat, 1, s, 1..(Len(s) + 1)) # {}

PATTERNS == <<
    [label |-> "planning", patterns |-> <<
        <<Lit("let me "), Alt({"break down", "plan", "start", "set up", "create"})>>,
        <<Alt({"first", "before", "to begin"}), Opt(","), Lit(" "),
          Alt({"i should", "let me", "i need to"})>>,
        <<Lit("this "), Alt({"requires", "needs", "involves"}), Lit(" "),
          Alt({"multiple", "several"})>> >>],
    [label |-> "recovery", patterns |-> <<
        <<Alt({"failed", "error", "didn't work", "issue"})>>,
        <<Lit("let me try "), Alt({"a different", "another", "instead"})>>,
        <<Lit("workaround")>> >>],
    [label |-> "diagnosis", patterns |-> <<
        <<Lit("looking at the "), Alt({"error", "issue", "problem"})>>,
        <<Lit("the "), Alt({"reason", "cause", "issue"}), Lit(" "),
          Alt({"is", "was", "seems"})>>,
        <<Lit("this "), Alt({"happens", "failed", "broke"}), Lit(" because")>> >>],
    [label |-> "sequencing", patterns |-> <<
        <<Alt({"first", "then", "next", "after that", "before"})>>,
        <<Lit("i need to "), AnyPlus, Lit(" "), Alt({"before", "first"})>>,
        <<Alt({"already", "now", "done"}), AnyPlus, Lit(" "),
          Alt({"move on", "proceed", "continue"})>> >>],
    [label |-> "clarification", patterns |-> <<
        <<Lit("the user "), Alt({"wants", "is asking", "means"})>>,
        <<Alt({"should i", "do they want"})>>,
        <<Alt({"unclear", "ambiguous", "not sure"})>> >>],
    [label |-> "context_awareness", patterns |-> <<
        <<Alt({"we're", "i'm"}), Lit(" "), Alt({"already", "currently", "now"})>>,
        <<Alt({"the current", "existing"}), Lit(" "), Alt({"state", "branch", "file"})>>,
        <<Alt({"remember", "note"}), Lit(" that")>> >>] >>

\* the inner loop of classify trying only the first pattern of the label
AnyPatternMatches_first(patterns, text_lower) == re_search(patterns[1], text_lower)

\* the inner loop of classify: some pattern of the label matches (break on the first)
AnyPatternMatches(patterns, text_lower) ==
    \E i \in 1..Len(patterns) : re_search(patterns[i], text_lower)

\* the outer loop of classify from the k-th entry of PATTERNS on
RECURSIVE ClassifyFrom(_, _)
ClassifyFrom(k, text_lower) ==
    IF k > Len(PATTERNS) THEN <<>>
    ELSE (IF AnyPatternMatches(PATTERNS[k].patterns, text_lower)
          THEN <<PATTERNS[k].label>> ELSE <<>>)
         \o ClassifyFrom(k + 1, text_lower)

\* DecisionPatternMatcher.classify
classify(thinking_text) ==
    LET matches == ClassifyFrom(1, str_lower(thinking_text))
    IN  IF matches # <<>> THEN matches ELSE <<"general">>

(***************************************************************************)
(* DecisionTraceExtractor: the fields derived from a thinking text.        *)
(***************************************************************************)
\* DecisionTraceExtractor._summarize
summarize(thinking) ==
    LET first_line == str_split_lines(thinking)[1]
    IN  IF Len(first_line) <= SUMMARY_MAX_LEN THEN first_line
        ELSE Take(first_line, SUMMARY_MAX_LEN - 3) \o "..."

CONTEXT_PHRASES == {"the user", "we have", "currently", "the error", "looking at"}

\* the loop of _extract_context over lines[:3], from the k-th line on
RECURSIVE ContextScan(_, _)
ContextScan(lines, k) ==
    IF k > Min(3, Len(lines)) THEN str_strip(lines[1])
    ELSE IF \E phrase \in CONTEXT_PHRASES : Contains(str_lower(lines[k]), phrase)
         THEN str_strip(lines[k])
         ELSE ContextScan(lines, k + 1)

\* DecisionTraceExtractor._extract_context
extract_context(thinking) == ContextScan(str_split_lines(thinking), 1)

\* "$": the end of s, or just before a newline that ends s
AtEnd(s, q) == q = Len(s) + 1 \/ (q = Len(s) /\ CharAt(s, q) = "\n")

\* "(.+?)(?:\.|$)" with ".+?" starting at p: the last index of the match, 0 for
\* none.  ".+?" takes s[p] and then as few characters as possible up to a q where
\* "." or "$" matches; it cannot pass a newline.
LazyEnd(s, p) ==
    LET stops == {q \in (p + 1)..(Len(s) + 1) :
                    \/ (q <= Len(s) /\ CharAt(s, q) \in {".", "\n"})
                    \/ AtEnd(s, q)}
        q == Least(stops)
    IN  IF p > Len(s) \/ CharAt(s, p) = "\n" THEN 0
        ELSE IF q <= Len(s) /\ CharAt(s, q) = "." THEN q
        ELSE IF AtEnd(s, q) THEN q - 1
        ELSE 0

\* the number of whitespace characters from position e on
SpaceRun(s, e) ==
    Least({k \in 0..(Len(s) - e + 1) : e + k > Len(s) \/ CharAt(s, e + k) \notin SpaceSet})

\* "\s+(.+?)(?:\.|$)" from position e, "\s+" holding k characters, longest first
RECURSIVE TailEnd(_, _, _)
TailEnd(s, e, k) ==
    IF k < 1 THEN 0
    ELSE IF LazyEnd(s, e + k) # 0 THEN LazyEnd(s, e + k)
    ELSE TailEnd(s, e, k - 1)

\* the match of "(h1|h2|..)\s+(.+?)(?:\.|$)" that starts at i: its last index, 0 for none
RECURSIVE HeadEnd(_, _, _, _)
HeadEnd(s, heads, h, i) ==
    IF h > Len(heads) THEN 0
    ELSE LET e == i + Len(heads[h])
             end == IF e - 1 <= Len(s) /\ SubSeq(s, i, e - 1) = heads[h]
                    THEN TailEnd(s, e, SpaceRun(s, e)) ELSE 0
         IN  IF end # 0 THEN end ELSE HeadEnd(s, heads, h + 1, i)

\* re.search of that pattern: match.group(0) of the leftmost match, "" standing
\* for no match
PhraseSearch(s, heads) ==
    LET starts == {i \in 1..Len(s) : HeadEnd(s, heads, 1, i) # 0}
    IN  IF starts = {} THEN ""
        ELSE SubSeq(s, Least(starts), HeadEnd(s, heads, 1, Least(starts)))

\* the loop over the patterns: the first pattern that matches decides
RECURSIVE FirstPhrase(_, _, _)
FirstPhrase(s, patterns, k) ==
    IF k > Len(patterns) THEN ""
    ELSE LET m == PhraseSearch(s, patterns[k])
         IN  IF m # "" THEN Take(m, EXTRACT_MAX_LEN) ELSE FirstPhrase(s, patterns, k + 1)

REASONING_PATTERNS ==
    << <<"because">>, <<"since">>, <<"this means", "this indicates", "this suggests">> >>

ACTION_PATTERNS == << <<"let me">>, <<"i should", "i will", "i need to">> >>

\* DecisionTraceExtractor._extract_reasoning
extract_reasoning(thinking) == FirstPhrase(str_lower(thinking), REASONING_PATTERNS, 1)

\* DecisionTraceExtractor._extract_action
extract_action(thinking) == FirstPhrase(str_lower(thinking), ACTION_PATTERNS, 1)

(***************************************************************************)
(* datetime.fromisoformat on the shapes "YYYY-MM-DDTHH:MM:SS" and          *)
(* "YYYY-MM-DDTHH:MM:SS+HH:MM" (the transcripts' timestamps, whose "Z" the *)
(* code replaces by "+00:00"); any other text fails to parse.  An instant  *)
(* is counted in seconds from the year 2000, with years of 365 days.       *)
(***************************************************************************)
DigitVal(c) == (CHOOSE i \in 1..10 : CharAt(DigitChars, i) = c) - 1

IsDigits(s, positions) == \A i \in positions : CharAt(s, i) \in DigitSet

Num2(s, i) == 10 * DigitVal(CharAt(s, i)) + DigitVal(CharAt(s, i + 1))

DaysBefore == <<0, 31, 59, 90, 120, 151, 181, 212, 243, 273, 304, 334>>

DaysIn == <<31, 28, 31, 30, 31, 30, 31, 31, 30, 31, 30, 31>>

NoTime == [ok |-> FALSE, aware |-> FALSE, secs |-> 0]

\* the date and time of day in s[1..19]
LocalTime(s) ==
    IF /\ IsDigits(s, {1, 2, 3, 4, 6, 7, 9, 10, 12, 13, 15, 16, 18, 19})
       /\ CharAt(s, 5) = "-" /\ CharAt(s, 8) = "-"
       /\ CharAt(s, 14) = ":" /\ CharAt(s, 17) = ":"
       /\ Num2(s, 6) \in 1..12
       /\ Num2(s, 9) >= 1 /\ Num2(s, 9) <= DaysIn[Num2(s, 6)]
       /\ Num2(s, 12) <= 23 /\ Num2(s, 15) <= 59 /\ Num2(s, 18) <= 59
    THEN [ok |-> TRUE, aware |-> FALSE,
          secs |-> ((((100 * Num2(s, 1) + Num2(s, 3) - 2000) * 365
                      + DaysBefore[Num2(s, 6)] + Num2(s, 9)) * 24
                     + Num2(s, 12)) * 60 + Num2(s, 15)) * 60 + Num2(s, 18)]
    ELSE NoTime

\* s[20..25] is a UTC offset "+HH:MM" or "-HH:MM"
IsUtcOffset(s) ==
    /\ CharAt(s, 20) \in {"+", "-"}
    /\ IsDigits(s, {21, 22, 24, 25}) /\ CharAt(s, 23) = ":"
    /\ Num2(s, 21) <= 23 /\ Num2(s, 24) <= 59

\* that offset in seconds
UtcOffset(s) ==
    (IF CharAt(s, 20) = "+" THEN 1 ELSE -1) * (Num2(s, 21) * 3600 + Num2(s, 24) * 60)

\* datetime.fromisoformat(s)
fromisoformat(s) ==
    IF Len(s) = 19 THEN LocalTime(s)
    ELSE IF Len(s) = 25 /\ LocalTime(Take(s, 19)).ok /\ IsUtcOffset(s)
         THEN [ok |-> TRUE, aware |-> TRUE, secs |-> LocalTime(Take(s, 19)).secs - UtcOffset(s)]
         ELSE NoTime

Abs(n) == IF n < 0 THEN -n ELSE n

(***************************************************************************)
(* JSON values as json.loads returns them: None, a number, a str, a list   *)
(* or a dict.  A line of a transcript is held as the value json.loads      *)
(* returns for it, JInvalid standing for a line on which json.loads raises *)
(* JSONDecodeError.                                                        *)
(***************************************************************************)
JNull == [t |-> "null"]

JInvalid == [t |-> "invalid"]

JNum(n) == [t |-> "num", n |-> n]

JStr(s) == [t |-> "str", s |-> s]

JArr(a) == [t |-> "arr", a |-> a]

JObj(f) == [t |-> "obj", f |-> f]

\* d.get(key, default)
Get(d, key, default) == IF key \in DOMAIN d.f THEN d.f[key] ELSE default

\* bool(v)
Truthy(v) ==
    IF v.t = "null" THEN FALSE
    ELSE IF v.t = "num" THEN v.n # 0
    ELSE IF v.t = "str" THEN v.s # ""
    ELSE IF v.t = "arr" THEN v.a # <<>>
    ELSE DOMAIN v.f # {}

\* len(v), defined for a str, a list and a dict
PyLen(v) ==
    IF v.t = "str" THEN Len(v.s)
    ELSE IF v.t = "arr" THEN Len(v.a)
    ELSE Cardinality(DOMAIN v.f)

Returned(v) == [raised |-> FALSE, exc |-> "", value |-> v]

Raised(e) == [raised |-> TRUE, exc |-> e, value |-> <<>>]

(***************************************************************************)
(* TranscriptParser                                                        *)
(***************************************************************************)
IsBlockOfType(block, type) ==
    block.t = "obj" /\ Get(block, "type", JNull) = JStr(type)

\* the thinking_blocks entries _extract_content appends for the blocks of content
ThinkingOf(obj, blocks) ==
    LET sel == SelectSeq(blocks, LAMBDA b : IsBlockOfType(b, "thinking"))
    IN  [i \in 1..Len(sel) |->
            [timestamp |-> Get(obj, "timestamp", JStr("")),
             thinking |-> Get(sel[i], "thinking", JStr("")),
             parent_uuid |-> Get(obj, "parentUuid", JNull)]]

\* the tool_uses entries _extract_content appends for the blocks of content
ToolUsesOf(obj, blocks) ==
    LET sel == SelectSeq(blocks, LAMBDA b : IsBlockOfType(b, "tool_use"))
    IN  [i \in 1..Len(sel) |->
            [timestamp |-> Get(obj, "timestamp", JStr("")),
             name |-> Get(sel[i], "name", JNull),
             input |-> Get(sel[i], "input", JObj(<<>>))]]

\* TranscriptParser._extract_content: what it appends, or the exception it raises
extract_content(obj) ==
    IF obj.t # "obj" THEN Raised("AttributeError")
    ELSE IF Get(obj, "type", JNull) # JStr("assistant")
         THEN Returned([thinking_blocks |-> <<>>, tool_uses |-> <<>>])
    ELSE LET message == Get(obj, "message", JObj(<<>>))
         IN  IF message.t # "obj" THEN Raised("AttributeError")
             ELSE LET content == Get(message, "content", JArr(<<>>))
                      \* iterating a str or a dict yields str elements, which are skipped
                      blocks == IF content.t = "arr" THEN content.a ELSE <<>>
                  IN  IF content.t \in {"null", "num"} THEN Raised("TypeError")
                      ELSE Returned([thinking_blocks |-> ThinkingOf(obj, blocks),
                                     tool_uses |-> ToolUsesOf(obj, blocks)])

\* the loop of parse from line k on, p holding the parser's lists so far
RECURSIVE ParseLines(_, _, _)
ParseLines(lines, k, p) ==
    IF k > Len(lines) THEN Returned(p)
    ELSE IF lines[k] = JInvalid THEN ParseLines(lines, k + 1, p)
    ELSE LET got == extract_content(lines[k])
         IN  IF got.raised THEN Raised(got.exc)
             ELSE ParseLines(lines, k + 1,
                    [messages |-> Append(p.messages, lines[k]),
                     thinking_blocks |-> p.thinking_blocks \o got.value.thinking_blocks,
                     tool_uses |-> p.tool_uses \o got.value.tool_uses])

NewParser == [messages |-> <<>>, thinking_blocks |-> <<>>, tool_uses |-> <<>>]

\* TranscriptParser(path).parse() on the file system fs: the parser's lists, or
\* the exception raised
parse(fs, path) ==
    IF fs[path].exists THEN ParseLines(fs[path].lines, 1, NewParser)
    ELSE Raised("FileNotFoundError")

(***************************************************************************)
(* DecisionTraceExtractor                                                  *)
(***************************************************************************)
\* the loop of _find_associated_tools from the k-th tool use on
RECURSIVE AssociatedFrom(_, _, _)
AssociatedFrom(think_time, tool_uses, k) ==
    IF k > Len(tool_uses) THEN <<>>
    ELSE LET tool == tool_uses[k]
             tool_time == IF tool.timestamp.t = "str"
                          THEN fromisoformat(str_replace(tool.timestamp.s, "Z", "+00:00"))
                          ELSE NoTime
             \* subtracting an aware and a naive datetime raises TypeError
             near == /\ tool_time.ok
                     /\ tool_time.aware = think_time.aware
                     /\ Abs(tool_time.secs - think_time.secs) <= WINDOW_SECONDS
         IN  (IF near THEN <<tool>> ELSE <<>>) \o AssociatedFrom(think_time, tool_uses, k + 1)

\* DecisionTraceExtractor._find_associated_tools
find_associated_tools(timestamp, tool_uses) ==
    LET think_time == IF timestamp.t = "str"
                      THEN fromisoformat(str_replace(timestamp.s, "Z", "+00:00"))
                      ELSE NoTime
    IN  IF ~think_time.ok THEN <<>> ELSE AssociatedFrom(think_time, tool_uses, 1)

\* the reasoning texts of the transcripts
LongThinking ==
    "Let me try a different approach since the build failed because of a missing dependency"

PlanThinking == "First, let me plan the deploy.\nThe user wants the tests green before that."

\* a reasoning text that starts with a line break
NewlineThinking ==
    "\nThe error is in the build step, so let me start with the failing dependency."

ThinkingInputs == {LongThinking, PlanThinking, NewlineThinking}

\* what extract derives from a reasoning text
TraceFields(thinking) ==
    [decision_types |-> classify(thinking),
     summary |-> summarize(thinking),
     context |-> extract_context(thinking),
     reasoning |-> extract_reasoning(thinking),
     action_taken |-> extract_action(thinking)]

\* the same, computed once for the reasoning texts of the transcripts
TraceFieldsOfInputs == [thinking \in ThinkingInputs |-> TraceFields(thinking)]

\* the DecisionTrace that extract builds for a thinking block; id is the identity
\* of the new object
NewTrace(id, block, tool_uses) ==
    LET thinking == block.thinking.s
        fields == TraceFieldsOfInputs[thinking]
        decision_types == fields.decision_types
        associated_tools == find_associated_tools(block.timestamp, tool_uses)
    IN  [id |-> id,
         timestamp |-> block.timestamp.s,
         decision_type |-> IF decision_types # <<>> THEN decision_types[1] ELSE "general",
         summary |-> fields.summary,
         context |-> fields.context,
         reasoning |-> fields.reasoning,
         action_taken |-> fields.action_taken,
         tools_used |-> [i \in 1..Len(associated_tools) |-> associated_tools[i].name.s],
         outcome |-> "None"]

\* the loop of extract from the k-th thinking block on; next_id is the identity
\* the next new object gets
RECURSIVE ExtractFrom(_, _, _, _)
ExtractFrom(p, k, traces, next_id) ==
    IF k > Len(p.thinking_blocks) THEN Returned(traces)
    ELSE LET thinking == p.thinking_blocks[k].thinking
         IN  IF ~Truthy(thinking) THEN ExtractFrom(p, k + 1, traces, next_id)
             ELSE IF thinking.t = "num" THEN Raised("TypeError")
             ELSE IF PyLen(thinking) < MIN_THINKING_LEN
                  THEN ExtractFrom(p, k + 1, traces, next_id)
             ELSE IF thinking.t # "str" THEN Raised("AttributeError")
             ELSE ExtractFrom(p, k + 1,
                    Append(traces, NewTrace(next_id, p.thinking_blocks[k], p.tool_uses)),
                    next_id + 1)

\* DecisionTraceExtractor.extract(path): the traces returned or the exception raised
extract(fs, path, next_id) ==
    LET parsed == parse(fs, path)
    IN  IF parsed.raised THEN Raised(parsed.exc)
        ELSE ExtractFrom(parsed.value, 1, <<>>, next_id)

(***************************************************************************)
(* The state.                                                              *)
(*   datagraph  the DecisionDatagraph object                               *)
(*   files      the transcript files: path -> [exists, lines]              *)
(*   pieces     the pieces of the text handed to the text functions        *)
(*   ret        the last call: its name, arguments and outcome             *)
(***************************************************************************)
VARIABLES datagraph, files, pieces, ret

vars == <<datagraph, files, pieces, ret>>

Call(op, args, out) == [op |-> op, args |-> args, out |-> out]

(***************************************************************************)
(* Inputs.                                                                 *)
(***************************************************************************)
\* the timestamp of the n-th trace: "2025-01-01T10:MM:00Z"
Stamp(n) ==
    "2025-01-01T10:" \o CharAt(DigitChars, (n \div 10) + 1)
                     \o CharAt(DigitChars, (n % 10) + 1) \o ":00Z"

Kind == [
    recoveryA |-> [decision_type |-> "recovery",
                   summary |-> "Build failed again",
                   context |-> "The build failed on a missing dependency",
                   reasoning |-> "because of a missing dependency",
                   action_taken |-> "let me try another install",
                   tools_used |-> <<"Read", "Bash", "Edit", "Grep">>],
    recoveryB |-> [decision_type |-> "recovery",
                   summary |-> "Tests timed out",
                   context |-> "The error was a network timeout in tests",
                   reasoning |-> "",
                   action_taken |-> "",
                   tools_used |-> <<"Bash">>],
    planning |-> [decision_type |-> "planning",
                  summary |-> "Let me plan the deploy",
                  context |-> "The user wants a deploy of the build",
                  reasoning |-> "",
                  action_taken |-> "let me plan the deploy",
                  tools_used |-> <<"Write", "Glob", "Task", "Todo">>],
    diagnosis |-> [decision_type |-> "diagnosis",
                   summary |-> "Looking at the error in the log",
                   context |-> "Looking at the error in the deploy log",
                   reasoning |-> "",
                   action_taken |-> "",
                   tools_used |-> <<"Bash", "Edit", "Grep", "Glob", "Read">>],
    sequencing |-> [decision_type |-> "sequencing",
                    summary |-> "First run the tests",
                    context |-> "tests first then deploy",
                    reasoning |-> "",
                    action_taken |-> "",
                    tools_used |-> <<>>] ]

\* DecisionTrace(...): a new object, the n-th, with the fields of a kind
NewObject(kind, n) ==
    [id |-> n, timestamp |-> Stamp(n),
     decision_type |-> Kind[kind].decision_type,
     summary |-> Kind[kind].summary,
     context |-> Kind[kind].context,
     reasoning |-> Kind[kind].reasoning,
     action_taken |-> Kind[kind].action_taken,
     tools_used |-> Kind[kind].tools_used,
     outcome |-> "None"]

Kinds == {"recoveryA", "recoveryB", "planning", "sequencing", "diagnosis"}

CapKinds == {"recoveryA", "planning"}

\* the calls of project: <<current_task, current_tools, current_error>>
Queries == {
    <<"Fix the failed build dependency", <<>>, "">>,
    <<"Fix the failed build dependency", <<"Read", "Write">>, "missing dependency">>,
    <<"deploy the tests", <<>>, "">>,
    <<"deploy the tests", <<"Bash">>, "missing dependency">>,
    <<"deploy the tests", <<>>,
      "build failed dependency as network proxy change broke cache mirror">>,
    <<"", <<"Write">>, "The error was a timeout">>,
    <<"then deploy", <<>>, "">> }

CapQueries == {
    <<"Fix the failed build dependency", <<"Read", "Write">>, "missing dependency">>,
    <<"deploy the build", <<"Write">>, "">>,
    <<"Fix the failed build dependency", <<>>, "">> }

\* the texts of the inputs, for which the keywords are computed once
\* summary + " " + context of the traces extract builds from the reasoning texts
ExtractedTexts == {
    LongThinking \o " " \o LongThinking,
    "First, let me plan the deploy. The user wants the tests green before that.",
    " The error is in the build step, so let me start with the failing dependency." }

InputTexts ==
    {q[1] : q \in Queries \cup CapQueries} \cup {q[3] : q \in Queries \cup CapQueries}
    \cup {Kind[k].context : k \in Kinds}
    \cup {Kind[k].summary \o " " \o Kind[k].context : k \in Kinds}
    \cup ExtractedTexts

(***************************************************************************)
(* DecisionDatagraph                                                       *)
(***************************************************************************)
DD_STOPWORDS == {"this", "that", "with", "from", "have", "been", "were", "will",
                 "would", "could", "should", "there", "their", "about", "which"}

\* DecisionDatagraph._extract_keywords
DD_keywords(text) ==
    LET words == re_findall_words(str_lower(text))
    IN  Take(SelectSeq(words, LAMBDA w : w \notin DD_STOPWORDS), DD_KEYWORD_CAP)

DD_KeywordsOfInputs == [t \in InputTexts |-> DD_keywords(t)]

\* the same, computed once for the texts of the inputs
DD_extract_keywords(text) ==
    IF text \in InputTexts THEN DD_KeywordsOfInputs[text] ELSE DD_keywords(text)

\* DecisionDatagraph(): all fields empty
NewDatagraph ==
    [traces |-> <<>>, by_type |-> <<>>, by_tool |-> <<>>, by_keyword |-> <<>>,
     recovery_patterns |-> <<>>, tool_sequences |-> <<>>]

\* d[key] = [value] in place of d[key].append(value)
DictAppend_overwrite(d, key, value) ==
    [k \in DOMAIN d \cup {key} |-> IF k = key THEN <<value>> ELSE d[k]]

\* d[key].append(value) on a defaultdict(list)
DictAppend(d, key, value) ==
    IF key \in DOMAIN d THEN [d EXCEPT ![key] = Append(@, value)]
    ELSE [k \in DOMAIN d \cup {key} |-> IF k = key THEN <<value>> ELSE d[k]]

\* d.get(key, [])
DictGet(d, key) == IF key \in DOMAIN d THEN d[key] ELSE <<>>

\* for key in keys: d[key].append(value)
RECURSIVE DictAppendAll(_, _, _)
DictAppendAll(d, keys, value) ==
    IF keys = <<>> THEN d
    ELSE DictAppendAll(DictAppend(d, Head(keys), value), Tail(keys), value)

\* add_trace without self.traces.append(trace)
add_trace_unlisted(dg, trace) ==
    [traces |-> dg.traces,
     by_type |-> DictAppend(dg.by_type, trace.decision_type, trace),
     by_tool |-> DictAppendAll(dg.by_tool, trace.tools_used, trace),
     by_keyword |-> DictAppendAll(dg.by_keyword,
                        DD_extract_keywords(trace.summary \o " " \o trace.context), trace),
     recovery_patterns |-> dg.recovery_patterns,
     tool_sequences |-> dg.tool_sequences]

\* DecisionDatagraph.add_trace, as the datagraph it leaves
add_trace(dg, trace) ==
    [traces |-> Append(dg.traces, trace),
     by_type |-> DictAppend(dg.by_type, trace.decision_type, trace),
     by_tool |-> DictAppendAll(dg.by_tool, trace.tools_used, trace),
     by_keyword |-> DictAppendAll(dg.by_keyword,
                        DD_extract_keywords(trace.summary \o " " \o trace.context), trace),
     recovery_patterns |->
        IF trace.decision_type = "recovery"
        THEN Append(dg.recovery_patterns,
                <<Take(trace.context, PATTERN_PREFIX_LEN),
                  IF trace.action_taken # ""
                  THEN Take(trace.action_taken, PATTERN_PREFIX_LEN)
                  ELSE Take(trace.summary, PATTERN_PREFIX_LEN)>>)
        ELSE dg.recovery_patterns,
     tool_sequences |-> dg.tool_sequences]

\* DecisionDatagraph.get_stats
get_stats(dg) ==
    [total_traces |-> Len(dg.traces),
     decision_types |-> [k \in DOMAIN dg.by_type |-> Len(dg.by_type[k])],
     tools_indexed |-> Cardinality(DOMAIN dg.by_tool),
     keywords_indexed |-> Cardinality(DOMAIN dg.by_keyword),
     recovery_patterns |-> Len(dg.recovery_patterns)]

\* for trace in traces: datagraph.add_trace(trace)
RECURSIVE AddAll(_, _)
AddAll(dg, new_traces) ==
    IF new_traces = <<>> THEN dg
    ELSE AddAll(add_trace(dg, Head(new_traces)), Tail(new_traces))

\* the loop of build_datagraph_from_sessions: an exception of extract is caught
\* and the file adds nothing
RECURSIVE BuildFrom(_, _, _)
BuildFrom(fs, session_files, dg) ==
    IF session_files = <<>> THEN dg
    ELSE LET got == extract(fs, Head(session_files), Len(dg.traces) + 1)
         IN  BuildFrom(fs, Tail(session_files),
                       IF got.raised THEN dg ELSE AddAll(dg, got.value))

\* build_datagraph_from_sessions
build_datagraph_from_sessions(fs, session_files) ==
    BuildFrom(fs, session_files, NewDatagraph)

(***************************************************************************)
(* ProjectionFunction.  An absent current_error is "" and absent           *)
(* current_tools are <<>>: the code tests both for truth only.  A float    *)
(* that the code computes as a quotient is held as [num, den].             *)
(***************************************************************************)
PF_STOPWORDS == {"this", "that", "with", "from", "have", "been", "were", "will"}

\* ProjectionFunction._extract_keywords
PF_keywords(text) ==
    LET words == re_findall_words(str_lower(text))
    IN  Take(SelectSeq(words, LAMBDA w : w \notin PF_STOPWORDS), PF_KEYWORD_CAP)

PF_KeywordsOfInputs == [t \in InputTexts |-> PF_keywords(t)]

\* the same, computed once for the texts of the inputs
PF_extract_keywords(text) ==
    IF text \in InputTexts THEN PF_KeywordsOfInputs[text] ELSE PF_keywords(text)

\* ProjectionFunction._text_similarity
text_similarity(text1, text2) ==
    LET words1 == Range(PF_extract_keywords(text1))
        words2 == Range(PF_extract_keywords(text2))
    IN  IF words1 = {} \/ words2 = {} THEN [num |-> 0, den |-> 1]
        ELSE [num |-> Cardinality(words1 \cap words2),
              den |-> Cardinality(words1 \cup words2)]

\* similarity > tenths / 10
Exceeds(similarity, tenths) == 10 * similarity.num > tenths * similarity.den

\* a == b for two DecisionTrace objects: the dataclass compares the fields
TraceEq(a, b) == [a EXCEPT !.id = 0] = [b EXCEPT !.id = 0]

\* trace in precedents
InTraces(trace, precedents) == \E i \in 1..Len(precedents) : TraceEq(precedents[i], trace)

\* for trace in candidates: if trace not in precedents: precedents.append(trace)
RECURSIVE AppendNew(_, _)
AppendNew(precedents, candidates) ==
    IF candidates = <<>> THEN precedents
    ELSE AppendNew(IF InTraces(Head(candidates), precedents) THEN precedents
                   ELSE Append(precedents, Head(candidates)),
                   Tail(candidates))

\* stage 1 comparing the error with trace.summary in place of trace.context
ErrorPrecedents_summary(dg, current_error) ==
    IF current_error = "" THEN <<>>
    ELSE SelectSeq(DictGet(dg.by_type, "recovery"),
                   LAMBDA trace : Exceeds(text_similarity(current_error, trace.summary), 3))

\* the recovery traces that stage 1 appends to precedents
ErrorPrecedents(dg, current_error) ==
    IF current_error = "" THEN <<>>
    ELSE SelectSeq(DictGet(dg.by_type, "recovery"),
                   LAMBDA trace : Exceeds(text_similarity(current_error, trace.context), 3))

\* the patterns stage 1 appends
ErrorPatterns(dg, current_error) ==
    LET with_action == SelectSeq(ErrorPrecedents(dg, current_error),
                                 LAMBDA trace : trace.action_taken # "")
    IN  [i \in 1..Len(with_action) |->
            "Past recovery: " \o Take(with_action[i].action_taken, RECOVERY_ACTION_LEN)]

\* how many entries of traces are the object id
CountId(traces, id) == Cardinality({i \in 1..Len(traces) : traces[i].id = id})

\* keyword_matches[id] after the loop over task_keywords[k..]
RECURSIVE KeywordMatches(_, _, _, _)
KeywordMatches(dg, task_keywords, k, id) ==
    IF k > Len(task_keywords) THEN 0
    ELSE CountId(DictGet(dg.by_keyword, task_keywords[k]), id)
         + KeywordMatches(dg, task_keywords, k + 1, id)

\* sorted(pairs, key=lambda x: -x[1]) of <<item, count>> pairs: a stable sort
RECURSIVE SortedByCount(_)
SortedByCount(pairs) ==
    IF pairs = <<>> THEN <<>>
    ELSE LET n == Len(pairs)
             done == SortedByCount(SubSeq(pairs, 1, n - 1))
             x == pairs[n]
             at == Cardinality({i \in 1..Len(done) : done[i][2] >= x[2]})
         IN  SubSeq(done, 1, at) \o <<x>> \o SubSeq(done, at + 1, Len(done))

\* matched_traces of stage 2
MatchedTraces(dg, current_task) ==
    LET task_keywords == PF_extract_keywords(current_task)
        scored == [i \in 1..Len(dg.traces) |->
                     <<dg.traces[i], KeywordMatches(dg, task_keywords, 1, dg.traces[i].id)>>]
    IN  SortedByCount(SelectSeq(scored, LAMBDA x : x[2] > 0))

\* precedents after stage 2
KeywordPrecedents(dg, current_task, precedents) ==
    LET top == Take(MatchedTraces(dg, current_task), KEYWORD_TOP)
    IN  AppendNew(precedents, [i \in 1..Len(top) |-> top[i][1]])

\* the concatenation of the tools_used of traces[k..], without tool
RECURSIVE OtherTools(_, _, _)
OtherTools(traces, k, tool) ==
    IF k > Len(traces) THEN <<>>
    ELSE SelectSeq(traces[k].tools_used, LAMBDA other_tool : other_tool # tool)
         \o OtherTools(traces, k + 1, tool)

\* the keys of a dict filled in the order of seq: the first occurrences
RECURSIVE FirstOccurrences(_)
FirstOccurrences(seq) ==
    IF seq = <<>> THEN <<>>
    ELSE LET n == Len(seq)
             done == FirstOccurrences(SubSeq(seq, 1, n - 1))
         IN  IF seq[n] \in Range(done) THEN done ELSE Append(done, seq[n])

\* the co_tool names taken in the order they are first met, without the sort
CoTools_unsorted(dg, tool) ==
    Take(FirstOccurrences(OtherTools(DictGet(dg.by_tool, tool), 1, tool)), CO_TOOL_TOP)

\* the co_tool names of stage 3 for one tool, most frequent first, at most CO_TOOL_TOP
CoTools(dg, tool) ==
    LET others == OtherTools(DictGet(dg.by_tool, tool), 1, tool)
        keys == FirstOccurrences(others)
        items == [i \in 1..Len(keys) |->
                    <<keys[i], Cardinality({j \in 1..Len(others) : others[j] = keys[i]})>>]
        top == Take(SortedByCount(items), CO_TOOL_TOP)
    IN  [i \in 1..Len(top) |-> top[i][1]]

\* for co_tool in co_tools: if co_tool not in suggested_tools: append
RECURSIVE SuggestNew(_, _)
SuggestNew(suggested_tools, co_tools) ==
    IF co_tools = <<>> THEN suggested_tools
    ELSE SuggestNew(IF Head(co_tools) \in Range(suggested_tools) THEN suggested_tools
                    ELSE Append(suggested_tools, Head(co_tools)),
                    Tail(co_tools))

\* stage 3 from the k-th of current_tools on, acc holding precedents and suggested_tools
RECURSIVE ToolStage(_, _, _, _)
ToolStage(dg, current_tools, k, acc) ==
    IF k > Len(current_tools) THEN acc
    ELSE LET tool == current_tools[k]
             tool_traces == DictGet(dg.by_tool, tool)
         IN  ToolStage(dg, current_tools, k + 1,
                [precedents |-> AppendNew(acc.precedents, Take(tool_traces, TOOL_TOP)),
                 suggested_tools |-> SuggestNew(acc.suggested_tools, CoTools(dg, tool))])

\* warnings of stage 4
\* the warnings with a recovery trace at exactly 0.2 let through
Warnings_inclusive(dg, current_task) ==
    LET similar == SelectSeq(DictGet(dg.by_type, "recovery"),
                     LAMBDA trace :
                        LET similarity == text_similarity(current_task, trace.context)
                        IN  10 * similarity.num >= 2 * similarity.den /\ similarity.num > 0)
    IN  [i \in 1..Len(similar) |->
            "Similar task failed before: " \o Take(similar[i].summary, SUMMARY_SNIPPET_LEN)]

Warnings(dg, current_task) ==
    LET similar == SelectSeq(DictGet(dg.by_type, "recovery"),
                     LAMBDA trace : Exceeds(text_similarity(current_task, trace.context), 2))
    IN  [i \in 1..Len(similar) |->
            "Similar task failed before: " \o Take(similar[i].summary, SUMMARY_SNIPPET_LEN)]

\* the patterns stage 5 appends for precedents[:5]
PrecedentPatterns(precedents) ==
    LET typed == SelectSeq(Take(precedents, PATTERN_SCAN),
                           LAMBDA trace : trace.decision_type \in {"sequencing", "planning"})
    IN  [i \in 1..Len(typed) |->
            IF typed[i].decision_type = "sequencing"
            THEN "Sequencing: " \o Take(typed[i].summary, SUMMARY_SNIPPET_LEN)
            ELSE "Planning approach: " \o Take(typed[i].summary, SUMMARY_SNIPPET_LEN)]

\* the four lists of project as they stand before the return statement
Accumulated(dg, current_task, current_tools, current_error) ==
    LET stage1 == ErrorPrecedents(dg, current_error)
        stage2 == KeywordPrecedents(dg, current_task, stage1)
        stage3 == ToolStage(dg, current_tools, 1,
                            [precedents |-> stage2, suggested_tools |-> <<>>])
    IN  [precedents |-> stage3.precedents,
         patterns |-> ErrorPatterns(dg, current_error) \o PrecedentPatterns(stage3.precedents),
         warnings |-> Warnings(dg, current_task),
         suggested_tools |-> stage3.suggested_tools]

\* min(1.0, len(precedents) / 5.0)
Relevance(n) == [num |-> Min(RELEVANCE_DIV, n), den |-> RELEVANCE_DIV]

\* the return statement without the slice of warnings
Capped_uncut(acc) ==
    [precedents |-> Take(acc.precedents, MAX_PRECEDENTS),
     applicable_patterns |-> Take(acc.patterns, MAX_PATTERNS),
     warnings |-> acc.warnings,
     suggested_tools |-> Take(acc.suggested_tools, MAX_SUGGESTED_TOOLS),
     relevance_score |-> Relevance(Len(acc.precedents))]

\* the ContextGraph returned for the accumulated lists
Capped(acc) ==
    [precedents |-> Take(acc.precedents, MAX_PRECEDENTS),
     applicable_patterns |-> Take(acc.patterns, MAX_PATTERNS),
     warnings |-> Take(acc.warnings, MAX_WARNINGS),
     suggested_tools |-> Take(acc.suggested_tools, MAX_SUGGESTED_TOOLS),
     relevance_score |-> Relevance(Len(acc.precedents))]

\* ProjectionFunction.project
project(dg, current_task, current_tools, current_error) ==
    Capped(Accumulated(dg, current_task, current_tools, current_error))

\* the traces a caller can hand to add_trace: a new object of some kind
\* the dict after d[key] on a defaultdict(list): a missing key is inserted
AfterGet_getitem(d, key) ==
    IF key \in DOMAIN d THEN d
    ELSE [k \in DOMAIN d \cup {key} |-> IF k = key THEN <<>> ELSE d[k]]

\* the dict after d.get(key, []): get inserts nothing, on a defaultdict too
AfterGet(d, key) == d

\* the dict after d.get(key, []) for each of keys
RECURSIVE AfterGetAll(_, _)
AfterGetAll(d, keys) ==
    IF keys = <<>> THEN d ELSE AfterGetAll(AfterGet(d, Head(keys)), Tail(keys))

\* the datagraph as project leaves it: the stages look the indices up with get
\* and append to their own lists only
project_datagraph(dg, current_task, current_tools, current_error) ==
    [dg EXCEPT !.by_type = AfterGet(@, "recovery"),
               !.by_keyword = AfterGetAll(@, PF_extract_keywords(current_task)),
               !.by_tool = AfterGetAll(@, current_tools)]

\* the datagraph as get_stats leaves it: it reads len() and items() only
get_stats_datagraph(dg) == dg

FreshTraces(kinds) == {NewObject(k, Len(datagraph.traces) + 1) : k \in kinds}

\* or the object it added last, once more
LastAdded ==
    IF datagraph.traces = <<>> THEN {} ELSE {datagraph.traces[Len(datagraph.traces)]}

\* the pieces a text is put together from
Pieces == {"alpha beta gamma delta ",
           "This WOULD build_x fail2, not sure ",
           "Let me plan; the user wants Tests. ",
           "then the build FAILED\n"}

\* "".join(parts)
RECURSIVE Join(_)
Join(parts) == IF parts = <<>> THEN "" ELSE Head(parts) \o Join(Tail(parts))

\* the text the caller holds
text == Join(pieces)

Record(timestamp, blocks) ==
    JObj([type |-> JStr("assistant"), timestamp |-> JStr(timestamp),
          message |-> JObj([role |-> JStr("assistant"), content |-> JArr(blocks)])])

ThinkingBlock(thinking) == JObj([type |-> JStr("thinking"), thinking |-> JStr(thinking)])

ToolUseBlock(name) ==
    JObj([type |-> JStr("tool_use"), name |-> JStr(name), input |-> JObj(<<>>)])

\* the lines a transcript is put together from
LineInputs == {
    Record("2025-01-01T10:00:00Z", <<ThinkingBlock(LongThinking), ToolUseBlock("Bash")>>),
    Record("2025-01-01T10:00:50Z", <<ThinkingBlock("Now run it."), ToolUseBlock("Read")>>),
    Record("2025-01-01T10:02:00Z", <<JStr("text"), ThinkingBlock(PlanThinking)>>),
    JObj([type |-> JStr("user"), message |-> JObj([content |-> JStr("please deploy")])]),
    Record("2025-01-01T10:01:00Z", <<ToolUseBlock("Edit"), ToolUseBlock("Edit")>>),
    Record("yesterday", <<ThinkingBlock(NewlineThinking), ToolUseBlock("Grep")>>),
    Record("2025-01-01T10:00:30", <<ToolUseBlock("Glob")>>),
    JInvalid,
    JNum(42) }

Paths == {"a.jsonl", "none.jsonl"}

SessionLists == {<<"a.jsonl">>, <<"none.jsonl", "a.jsonl">>, <<"a.jsonl", "a.jsonl">>}

(***************************************************************************)
(* The initial state and the calls.                                        *)
(***************************************************************************)
Init ==
    /\ datagraph = NewDatagraph
    /\ files = [p \in Paths |-> [exists |-> FALSE, lines |-> <<>>]]
    /\ pieces = <<>>
    /\ ret = Call("init", <<>>, Returned(<<>>))

\* datagraph.add_trace(trace)
AddTrace(trace) ==
    /\ datagraph' = add_trace(datagraph, trace)
    /\ ret' = Call("add_trace", <<trace>>, Returned("None"))
    /\ UNCHANGED <<files, pieces>>

\* datagraph.get_stats()
GetStats ==
    /\ ret' = Call("get_stats", <<>>, Returned(get_stats(datagraph)))
    /\ datagraph' = get_stats_datagraph(datagraph)
    /\ UNCHANGED <<files, pieces>>

\* ProjectionFunction(datagraph).project(current_task, current_tools, current_error)
Project(current_task, current_tools, current_error) ==
    /\ ret' = Call("project", <<current_task, current_tools, current_error>>,
                   Returned(project(datagraph, current_task, current_tools, current_error)))
    /\ datagraph' = project_datagraph(datagraph, current_task, current_tools, current_error)
    /\ UNCHANGED <<files, pieces>>

\* a session appends a line to its transcript
WriteLine(path, line) ==
    /\ files' = [files EXCEPT ![path] = [exists |-> TRUE, lines |-> Append(@.lines, line)]]
    /\ ret' = Call("write", <<path>>, Returned("None"))
    /\ UNCHANGED <<datagraph, pieces>>

\* TranscriptParser(path).parse()
Parse(path) ==
    /\ ret' = Call("parse", <<path>>, parse(files, path))
    /\ UNCHANGED <<datagraph, files, pieces>>

\* DecisionTraceExtractor().extract(path)
Extract(path) ==
    /\ ret' = Call("extract", <<path>>, extract(files, path, 1))
    /\ UNCHANGED <<datagraph, files, pieces>>

\* datagraph = build_datagraph_from_sessions(session_files)
BuildDatagraph(session_files) ==
    /\ datagraph' = build_datagraph_from_sessions(files, session_files)
    /\ ret' = Call("build_datagraph_from_sessions", <<session_files>>, Returned("datagraph"))
    /\ UNCHANGED <<files, pieces>>

\* the caller extends the text
AppendPiece(piece) ==
    /\ pieces' = Append(pieces, piece)
    /\ ret' = Call("text", <<>>, Returned("None"))
    /\ UNCHANGED <<datagraph, files>>

\* DecisionPatternMatcher().classify(text)
Classify ==
    /\ ret' = Call("classify", <<text>>, Returned(classify(text)))
    /\ UNCHANGED <<datagraph, files, pieces>>

\* DecisionDatagraph()._extract_keywords(text)
DDExtractKeywords ==
    /\ ret' = Call("DecisionDatagraph._extract_keywords", <<text>>,
                   Returned(DD_extract_keywords(text)))
    /\ UNCHANGED <<datagraph, files, pieces>>

\* ProjectionFunction(datagraph)._extract_keywords(text)
PFExtractKeywords ==
    /\ ret' = Call("ProjectionFunction._extract_keywords", <<text>>,
                   Returned(PF_extract_keywords(text)))
    /\ UNCHANGED <<datagraph, files, pieces>>

(***************************************************************************)
(* Specifications.                                                         *)
(***************************************************************************)
\* the datagraph and its projection, over all four kinds of trace
Next ==
    \/ \E trace \in FreshTraces(Kinds) \cup LastAdded :
          Len(datagraph.traces) < MaxTraces /\ AddTrace(trace)
    \/ \E q \in Queries : Project(q[1], q[2], q[3])
    \/ GetStats

Spec == Init /\ [][Next]_vars

\* the same calls on long datagraphs of two kinds of trace
NextCaps ==
    \/ \E trace \in FreshTraces(CapKinds) :
          Len(datagraph.traces) < MaxCapTraces /\ AddTrace(trace)
    \/ \E q \in CapQueries : Project(q[1], q[2], q[3])
    \/ GetStats

SpecCaps == Init /\ [][NextCaps]_vars

\* the functions of a text
NextText ==
    \/ \E piece \in Pieces : Len(pieces) < MaxPieces /\ AppendPiece(piece)
    \/ Classify
    \/ DDExtractKeywords
    \/ PFExtractKeywords

SpecText == Init /\ [][NextText]_vars

\* transcripts, their parsing and extraction
NextExtract ==
    \/ \E line \in LineInputs :
          Len(files["a.jsonl"].lines) < MaxLines /\ WriteLine("a.jsonl", line)
    \/ \E path \in Paths : Parse(path)
    \/ \E path \in Paths : Extract(path)
    \/ \E session_files \in SessionLists : BuildDatagraph(session_files)

SpecExtract == Init /\ [][NextExtract]_vars

(***************************************************************************)
(* Properties.                                                             *)
(***************************************************************************)
\* a is a prefix of b
IsPrefix(a, b) == Len(a) <= Len(b) /\ SubSeq(b, 1, Len(a)) = a

\* the three indices of the datagraph
Indices(dg) == <<dg.by_type, dg.by_tool, dg.by_keyword>>

\* C1: after any sequence of add_trace calls on an empty datagraph, every trace
\* held in a list of by_type, by_tool or by_keyword is an element of traces.
C1_IndexedTracesAreInTraces ==
    \A n \in 1..3 : \A key \in DOMAIN Indices(datagraph)[n] :
        \A i \in 1..Len(Indices(datagraph)[n][key]) :
            Indices(datagraph)[n][key][i] \in Range(datagraph.traces)

\* a state where the three indices hold traces of two add_trace calls
C1_Witness ==
    /\ Len(datagraph.traces) >= 2
    /\ datagraph.traces[1].id # datagraph.traces[2].id
    /\ \A n \in 1..3 : \E key \in DOMAIN Indices(datagraph)[n] :
          Len(Indices(datagraph)[n][key]) >= 2

\* C2: add_trace is cumulative and order-preserving.  A call appends its trace to
\* traces, so traces is the added traces in call order, and no step removes or
\* reorders an entry of traces or of an index list: every list a key had before
\* the step is a prefix of the list the key has after it.
C2_AddTraceCumulative ==
    [][/\ IsPrefix(datagraph.traces, datagraph'.traces)
       /\ \A n \in 1..3 : \A key \in DOMAIN Indices(datagraph)[n] :
             /\ key \in DOMAIN Indices(datagraph')[n]
             /\ IsPrefix(Indices(datagraph)[n][key], Indices(datagraph')[n][key])
       /\ ret'.op = "add_trace" =>
             datagraph'.traces = Append(datagraph.traces, ret'.args[1])]_vars

\* T1 then T2 were added, traces is [T1, T2], and both share an index list
C2_Witness ==
    /\ ret.op = "add_trace"
    /\ Len(datagraph.traces) = 2
    /\ datagraph.traces[1].decision_type = "recovery"
    /\ datagraph.traces[2] = ret.args[1]
    /\ datagraph.traces[2].decision_type = "planning"
    /\ "build" \in DOMAIN datagraph.by_keyword
    /\ Len(datagraph.by_keyword["build"]) = 3
    /\ datagraph.by_keyword["build"][3] = ret.args[1]

NoRepeat(seq) == \A i, j \in 1..Len(seq) : seq[i] = seq[j] => i = j

\* C3: the ContextGraph project returns has at most 10 precedents, 5
\* applicable_patterns, 3 warnings and 5 suggested_tools with no tool name
\* repeated, a relevance_score in [0, 1], and each list is a prefix of what the
\* stages accumulated.
C3_ResultCaps ==
    ret.op = "project" =>
        LET cg == ret.out.value
            acc == Accumulated(datagraph, ret.args[1], ret.args[2], ret.args[3])
        IN  /\ Len(cg.precedents) <= 10 /\ IsPrefix(cg.precedents, acc.precedents)
            /\ Len(cg.applicable_patterns) <= 5
            /\ IsPrefix(cg.applicable_patterns, acc.patterns)
            /\ Len(cg.warnings) <= 3 /\ IsPrefix(cg.warnings, acc.warnings)
            /\ Len(cg.suggested_tools) <= 5
            /\ IsPrefix(cg.suggested_tools, acc.suggested_tools)
            /\ NoRepeat(cg.suggested_tools)
            /\ 0 <= cg.relevance_score.num
            /\ cg.relevance_score.num <= cg.relevance_score.den
            /\ (Len(acc.precedents) >= 10 => Len(cg.precedents) = 10)

\* a call where every one of the four lists was cut
C3_Witness ==
    /\ ret.op = "project"
    /\ LET cg == ret.out.value
           acc == Accumulated(datagraph, ret.args[1], ret.args[2], ret.args[3])
       IN  /\ Len(acc.precedents) > 10 /\ Len(cg.precedents) = 10
           /\ Len(acc.patterns) > 5 /\ Len(cg.applicable_patterns) = 5
           /\ Len(acc.warnings) > 3 /\ Len(cg.warnings) = 3
           /\ Len(acc.suggested_tools) > 5 /\ Len(cg.suggested_tools) = 5
           /\ cg.relevance_score = [num |-> 5, den |-> 5]

\* the tokens the keyword rule admits: at least four letters, lower-cased
IsKeywordToken(w) == Len(w) >= 4 /\ \A i \in 1..Len(w) : CharAt(w, i) \in LowerSet

\* C5: both _extract_keywords functions return at most 10 tokens on any text,
\* each of at least 4 alphabetic characters, lower-cased, none from the stopword
\* set, in the order they occur in the text.
C5_KeywordsAtMostTen ==
    ret.op \in {"DecisionDatagraph._extract_keywords",
                "ProjectionFunction._extract_keywords"} =>
        LET keywords == ret.out.value
            stopwords == IF ret.op = "DecisionDatagraph._extract_keywords"
                         THEN DD_STOPWORDS ELSE PF_STOPWORDS
            admitted == SelectSeq(re_findall_words(str_lower(ret.args[1])),
                                  LAMBDA w : w \notin stopwords)
        IN  /\ Len(keywords) <= 10
            /\ \A i \in 1..Len(keywords) :
                  IsKeywordToken(keywords[i]) /\ keywords[i] \notin stopwords
            /\ IsPrefix(keywords, admitted)

\* the thinking texts of one transcript line: those of the thinking blocks of an
\* assistant record
BlockTexts(line) ==
    IF /\ line.t = "obj"
       /\ Get(line, "type", JNull) = JStr("assistant")
       /\ Get(line, "message", JNull).t = "obj"
       /\ Get(Get(line, "message", JNull), "content", JNull).t = "arr"
    THEN LET blocks == SelectSeq(Get(Get(line, "message", JNull), "content", JNull).a,
                          LAMBDA b : /\ IsBlockOfType(b, "thinking")
                                     /\ Get(b, "thinking", JNull).t = "str")
         IN  [i \in 1..Len(blocks) |-> Get(blocks[i], "thinking", JNull).s]
    ELSE <<>>

\* the texts of the reasoning blocks of a transcript, in log order
RECURSIVE ReasoningTexts(_)
ReasoningTexts(lines) ==
    IF lines = <<>> THEN <<>> ELSE BlockTexts(Head(lines)) \o ReasoningTexts(Tail(lines))

\* those of at least 50 characters
LongTexts(lines) == SelectSeq(ReasoningTexts(lines), LAMBDA t : Len(t) >= 50)

\* C6: extract(path) on a transcript that cannot be opened, or that has no
\* qualifying reasoning block, returns the empty trace sequence and raises no
\* exception.
C6_ExtractReturnsEmpty ==
    (/\ ret.op = "extract"
     /\ \/ ~files[ret.args[1]].exists
        \/ LongTexts(files[ret.args[1]].lines) = <<>>)
    => ret.out = Returned(<<>>)

\* a line that is a JSON object of the shape the parser expects
ExpectedShape(line) ==
    /\ line.t = "obj"
    /\ Get(line, "type", JNull) = JStr("assistant") =>
          /\ Get(line, "message", JObj(<<>>)).t = "obj"
          /\ Get(Get(line, "message", JObj(<<>>)), "content", JArr(<<>>)).t
                \in {"arr", "str", "obj"}

\* C7: parse never fails on a line: a line that is not valid JSON, or that is
\* valid JSON but not an object of the expected shape, is skipped, and the lines
\* after it are still read.
C7_ParseSkipsMalformedLines ==
    (ret.op = "parse" /\ files[ret.args[1]].exists) =>
        ret.out = ParseLines(SelectSeq(files[ret.args[1]].lines, ExpectedShape),
                             1, NewParser)

\* the recovery-typed traces of the datagraph
Recoveries == DictGet(datagraph.by_type, "recovery")

\* the datagraph holds two recovery-typed traces, two objects
TwoRecoveries == Len(Recoveries) = 2 /\ Recoveries[1].id # Recoveries[2].id

\* the trace is one of the precedents of the ContextGraph
AmongPrecedents(trace, cg) == \E j \in 1..Len(cg.precedents) : cg.precedents[j] = trace

Emitted(out) == IF out.raised THEN <<>> ELSE out.value

\* C9: extract emits exactly one trace for each reasoning block whose text has
\* at least 50 characters and none for a shorter block, in the order of the
\* blocks in the log.
C9_OneTracePerLongBlock ==
    (ret.op = "extract" /\ files[ret.args[1]].exists) =>
        LET long == LongTexts(files[ret.args[1]].lines)
            emitted == Emitted(ret.out)
        IN  /\ Len(emitted) = Len(long)
            /\ \A i \in 1..Len(long) : emitted[i].summary = summarize(long[i])

\* the labels in the order of their declaration
LabelOrder == <<"planning", "recovery", "diagnosis", "sequencing", "clarification",
                "context_awareness">>

\* at least one pattern of the label matches the lower-cased text
LabelMatches(label, text_lower) ==
    \E k \in 1..Len(PATTERNS) :
        /\ PATTERNS[k].label = label
        /\ \E i \in 1..Len(PATTERNS[k].patterns) :
              re_search(PATTERNS[k].patterns[i], text_lower)

\* C10: classify returns a non-empty list: the labels, each once and in the
\* order of their declaration (planning, recovery, diagnosis, sequencing,
\* clarification, context_awareness), a label being present exactly when one of
\* its patterns matches the lower-cased text, and ["general"] when none matches.
C10_ClassifyLabels ==
    ret.op = "classify" =>
        LET labels == ret.out.value
            text_lower == str_lower(ret.args[1])
            matching == SelectSeq(LabelOrder, LAMBDA l : LabelMatches(l, text_lower))
        IN  /\ labels # <<>>
            /\ NoRepeat(labels)
            /\ \A l \in Range(LabelOrder) :
                  l \in Range(labels) <=> LabelMatches(l, text_lower)
            /\ matching # <<>> => labels = matching
            /\ matching = <<>> => labels = <<"general">>

\* a text whose first match is of "sequencing" and which is classified planning
\* first, each label once
C10_Witness ==
    /\ ret.op = "classify"
    /\ Len(pieces) >= 2 /\ pieces[1] = "then the build FAILED\n"
    /\ ret.out.value = <<"planning", "recovery", "sequencing", "clarification">>

\* C11: every DecisionTrace emitted by extract has a non-empty summary, whatever
\* the position of the line breaks in its reasoning text of at least 50
\* characters.
C11_SummaryNeverEmpty ==
    (ret.op = "extract" /\ ~ret.out.raised) =>
        \A i \in 1..Len(ret.out.value) : ret.out.value[i].summary # ""

\* C12: get_stats and project leave the datagraph unchanged: after either call,
\* with any arguments, traces, the key sets and the lists of by_type, by_tool
\* and by_keyword, recovery_patterns and tool_sequences are what they were
\* before the call.
C12_ReadsLeaveDatagraph ==
    [][ret'.op \in {"get_stats", "project"} => datagraph' = datagraph]_vars

\* project was called on a non-empty datagraph with a task keyword, a tool hint
\* and an error text, and none of the keys it looked up is in an index
C12_Witness ==
    /\ ret.op = "project"
    /\ datagraph.traces # <<>>
    /\ ret.args[3] # "" /\ "recovery" \notin DOMAIN datagraph.by_type
    /\ ret.args[2] # <<>>
    /\ \A i \in 1..Len(ret.args[2]) : ret.args[2][i] \notin DOMAIN datagraph.by_tool
    /\ PF_extract_keywords(ret.args[1]) # <<>>
    /\ \A w \in Range(PF_extract_keywords(ret.args[1])) :
          w \notin DOMAIN datagraph.by_keyword

\* the number of the task's keywords under which the keyword index holds the trace
KeywordTally(dg, task_keywords, trace) ==
    Cardinality({w \in Range(task_keywords) : trace \in Range(DictGet(dg.by_keyword, w))})

\* the traces reached through the keyword index, each once, ranked by that tally
\* descending, ties in datagraph insertion order
RankedByTally(dg, current_task) ==
    LET task_keywords == PF_extract_keywords(current_task)
        reached == FirstOccurrences(
                       SelectSeq(dg.traces,
                                 LAMBDA t : KeywordTally(dg, task_keywords, t) > 0))
        ranked == SortedByCount([i \in 1..Len(reached) |->
                      <<reached[i], KeywordTally(dg, task_keywords, reached[i])>>])
    IN  [i \in 1..Len(ranked) |-> ranked[i][1]]

\* the first n entries of candidates that are not among precedents
FirstFresh(candidates, precedents, n) ==
    Take(SelectSeq(candidates, LAMBDA t : t \notin Range(precedents)), n)

\* C13: keyword-driven recall: a trace reached through the keyword index has as
\* tally the number of the task's keywords that matched it, the matched traces
\* are ranked by tally descending with ties in insertion order, and the stage
\* appends to precedents exactly the first 5, in rank order, of the matched
\* traces not already among the precedents.  Stated for calls without tool
\* hints, where the precedents returned are those of stages 1 and 2.
C13_KeywordRecall ==
    (ret.op = "project" /\ ret.args[2] = <<>>) =>
        LET before == ErrorPrecedents(datagraph, ret.args[3])
        IN  ret.out.value.precedents =
               Take(before \o FirstFresh(RankedByTally(datagraph, ret.args[1]), before, 5),
                    10)

\* precedents after the tool hints from the k-th on, each hinted tool adding the
\* first 3 traces of its index that are not yet among the precedents
RECURSIVE FirstThreeFresh(_, _, _, _)
FirstThreeFresh(dg, current_tools, k, precedents) ==
    IF k > Len(current_tools) THEN precedents
    ELSE FirstThreeFresh(dg, current_tools, k + 1,
            precedents \o FirstFresh(FirstOccurrences(DictGet(dg.by_tool, current_tools[k])),
                                     precedents, 3))

\* C14: tool-driven recall: for each hinted tool, in hint order, the stage
\* appends to precedents the first 3 traces of that tool's index, in index
\* order, that are not already among the precedents, and fewer than 3 only when
\* the index holds fewer than 3 traces not already present.
C14_ToolRecall ==
    ret.op = "project" =>
        LET before == KeywordPrecedents(datagraph, ret.args[1],
                                        ErrorPrecedents(datagraph, ret.args[3]))
        IN  ret.out.value.precedents =
               Take(FirstThreeFresh(datagraph, ret.args[2], 1, before), 10)

\* how often name occurs in seq
Count(seq, name) == Cardinality({i \in 1..Len(seq) : seq[i] = name})

\* other is ranked before name: it is more frequent in seq, or as frequent and
\* met earlier
RankedBefore(seq, other, name) ==
    \/ Count(seq, other) > Count(seq, name)
    \/ /\ Count(seq, other) = Count(seq, name)
       /\ Least({i \in 1..Len(seq) : seq[i] = other})
             < Least({i \in 1..Len(seq) : seq[i] = name})

\* the names of seq that fewer than 3 other names are ranked before, in rank order
ThreeMostFrequent(seq) ==
    LET names == Range(seq)
        place(name) == Cardinality({other \in names : RankedBefore(seq, other, name)}) + 1
    IN  [k \in 1..Min(3, Cardinality(names)) |-> CHOOSE name \in names : place(name) = k]

\* the other tools in tools_used of the traces of the tool's index, in index order
CoOccurring(dg, tool) == OtherTools(DictGet(dg.by_tool, tool), 1, tool)

\* suggested_tools after the hints from the k-th on
RECURSIVE SuggestedFrom(_, _, _, _)
SuggestedFrom(dg, current_tools, k, suggested_tools) ==
    IF k > Len(current_tools) THEN suggested_tools
    ELSE SuggestedFrom(dg, current_tools, k + 1,
            suggested_tools \o
            SelectSeq(ThreeMostFrequent(CoOccurring(dg, current_tools[k])),
                      LAMBDA name : name \notin Range(suggested_tools)))

\* every trace of the Bash index uses Read, and there is such a trace
BashAlwaysWithRead ==
    /\ DictGet(datagraph.by_tool, "Bash") # <<>>
    /\ \A i \in 1..Len(DictGet(datagraph.by_tool, "Bash")) :
          "Read" \in Range(DictGet(datagraph.by_tool, "Bash")[i].tools_used)

\* C15 as stated: with tool_hints = ["Bash"] and a datagraph in which every trace
\* that uses Bash also uses Read, Read is among suggested_tools.
C15_ReadAlwaysSuggested ==
    (ret.op = "project" /\ ret.args[2] = <<"Bash">> /\ BashAlwaysWithRead) =>
        "Read" \in Range(ret.out.value.suggested_tools)

\* C15: for each hinted tool, in hint order, the other tools in tools_used of
\* the traces of its index are tallied by occurrence, the 3 most frequent are
\* taken, ties broken by first-encountered order, and each is appended to
\* suggested_tools unless already suggested; with tool_hints = ["Bash"] and
\* every Bash trace using Read, Read is among suggested_tools when fewer than 3
\* other tools are ranked before it.
C15_CoToolSuggestion ==
    ret.op = "project" =>
        /\ ret.out.value.suggested_tools =
              Take(SuggestedFrom(datagraph, ret.args[2], 1, <<>>), 5)
        /\ (ret.args[2] = <<"Bash">> /\ BashAlwaysWithRead) =>
              ("Read" \in Range(ret.out.value.suggested_tools)
                 <=> Cardinality({other \in Range(CoOccurring(datagraph, "Bash")) :
                        RankedBefore(CoOccurring(datagraph, "Bash"), other, "Read")}) < 3)

\* Bash is hinted, every Bash trace uses Read, and Read is suggested because it is
\* more frequent than a tool that was met before it
C15_Witness ==
    /\ ret.op = "project" /\ ret.args[2] = <<"Bash">> /\ BashAlwaysWithRead
    /\ ret.out.value.suggested_tools = <<"Edit", "Grep", "Read">>
    /\ CoOccurring(datagraph, "Bash")[3] = "Glob"

\* the Jaccard similarity of the keyword sets of two texts is strictly above 1/5
JaccardAboveFifth(text1, text2) ==
    LET words1 == Range(PF_extract_keywords(text1))
        words2 == Range(PF_extract_keywords(text2))
    IN  5 * Cardinality(words1 \cap words2) > Cardinality(words1 \cup words2)

\* the recovery-typed traces similar to the task, in the order they were added
SimilarRecoveries(dg, task_text) ==
    SelectSeq(dg.traces, LAMBDA trace : /\ trace.decision_type = "recovery"
                                        /\ JaccardAboveFifth(task_text, trace.context))

\* C16: the warnings of project are one warning, made of the trace's summary,
\* for each recovery-typed trace whose context has Jaccard keyword similarity
\* with the task strictly above 0.2, in the order the traces were added, the
\* first 3 only; they are a function of the datagraph and the task alone, so
\* other types, traces at or below 0.2, error_text and tool_hints add nothing.
C16_Warnings ==
    ret.op = "project" =>
        LET similar == Take(SimilarRecoveries(datagraph, ret.args[1]), 3)
        IN  ret.out.value.warnings =
              [i \in 1..Len(similar) |->
                  "Similar task failed before: " \o Take(similar[i].summary, 60)]

\* more than 3 similar recovery traces and a similar planning trace are in the
\* datagraph, error_text and tool_hints are given, and 3 warnings are returned
C16_Witness ==
    /\ ret.op = "project" /\ ret.args[2] # <<>> /\ ret.args[3] # ""
    /\ Len(SimilarRecoveries(datagraph, ret.args[1])) > 3
    /\ \E i \in 1..Len(datagraph.traces) :
          /\ datagraph.traces[i].decision_type # "recovery"
          /\ text_similarity(ret.args[1], datagraph.traces[i].context).num > 0
    /\ Len(ret.out.value.warnings) = 3

\* the instant a timestamp of the log denotes, a timestamp without an offset
\* read as UTC; ok is FALSE when the timestamp does not parse
Instant(timestamp) ==
    IF timestamp.t = "str" THEN fromisoformat(str_replace(timestamp.s, "Z", "+00:00"))
    ELSE NoTime

\* the tool event is at most 60 seconds before or after the block
WithinWindow(tool_timestamp, block_timestamp) ==
    /\ Instant(tool_timestamp).ok
    /\ Instant(block_timestamp).ok
    /\ Abs(Instant(tool_timestamp).secs - Instant(block_timestamp).secs) <= 60

\* the names of the tool events of the transcript within the window of a block
ToolsWithinWindow(lines, block_timestamp) ==
    LET events == ParseLines(lines, 1, NewParser).value.tool_uses
        near == SelectSeq(events, LAMBDA tool : WithinWindow(tool.timestamp, block_timestamp))
    IN  [i \in 1..Len(near) |-> near[i].name.s]

\* C17: for each trace extract emits, tools_used is the names of exactly the
\* tool events of the transcript whose parsed timestamp is at most 60 seconds
\* before or after the block's parsed timestamp, in log order with duplicates
\* kept; an event whose timestamp does not parse is left out, and tools_used
\* is empty when the block's own timestamp does not parse.
C17_ToolsWithinWindow ==
    (ret.op = "extract" /\ ~ret.out.raised) =>
        \A i \in 1..Len(ret.out.value) :
            ret.out.value[i].tools_used =
                ToolsWithinWindow(files[ret.args[1]].lines,
                                  JStr(ret.out.value[i].timestamp))

\* C18: no trace appears more than once in the precedents project returns,
\* whatever sequence of add_trace calls built the datagraph (the same trace
\* or equal-valued traces added more than once included) and whatever the
\* task text, tool hints and error text are.
C18_NoPrecedentTwice ==
    ret.op = "project" => NoRepeat(ret.out.value.precedents)

=============================================================================
